---- MODULE Spec2Model ----
(***************************************************************************)
(* The training driver of src/main.py as a state machine: one action per   *)
(* statement (or call) of the script, in program order.                    *)
(*                                                                         *)
(* Collaborators whose code is not part of src/ (utils, losses, datasets)  *)
(* are modelled from their contract in spec.md; those definitions say so.  *)
(*                                                                         *)
(* Trace variables (calls, epoch_rows, epoch_scalars, loss_sum, n_losses)  *)
(* record what the program did to its batch, its log file and its metrics  *)
(* writer since the batch / epoch in progress began.  The cumulative       *)
(* effect on the file and the writer is kept as counters in log_file and   *)
(* writer.                                                                 *)
(***************************************************************************)
EXTENDS Integers, Sequences, FiniteSets, TLC

\* ---------------------------------------------------------------- bounds
MaxEpochs == 2     \* --epochs is drawn from 0..MaxEpochs
MaxTrain  == 3     \* the train split holds 1..MaxTrain samples
MaxTest   == 2     \* the test split holds 1..MaxTest samples
MaxBatch  == 2     \* --batch_size is drawn from 1..MaxBatch
MaxLoss   == 1     \* a batch loss is drawn from 0..MaxLoss

\* ------------------------------------------------------ program constants
CkptEvery == 500   \* main.py:195, epoch % 500

LossChoices ==     \* main.py:24
    {"local_homography", "global_homography", "posenet", "homoscedastic", "geometric", "dsac"}

DefaultLoss == "local_homography"     \* main.py:25

\* Loss names given on the command line: the six choices and one that is not.
LossInputs == LossChoices \cup {"l2"}

\* Depth percentiles given on the command line, in thousandths
\* (the defaults of main.py:29-30 are 25 and 975).
Percentiles == {25, 975}

VARIABLES
    args,           \* the parsed command line (main.py:39)
    data,           \* sizes of the train and test split of the dataset directory
    pc,             \* position in the script
    mode,           \* model.training: "unloaded", "train" or "eval"
    criterion,      \* the loss instantiated at main.py:86-105, "none" before
    weights,        \* version of the model weights: number of updates applied
    loss_params,    \* version of the criterion's learned parameters
    grad,           \* batches whose loss gradient is accumulated in .grad
    epoch,          \* loop variable of main.py:123, -1 before the loop
    epoch_loss,     \* main.py:124/150, a fraction <<numerator, denominator>>
    errors,         \* the error accumulator, main.py:125/169
    sampler,        \* iteration state of train_loader and test_loader
    batch,          \* the batch in flight
    calls,          \* calls made on the batch in flight, in order
    log_file,       \* epochs_poses_log.csv
    epoch_rows,     \* rows appended to the log since the epoch began
    writer,         \* the SummaryWriter
    epoch_scalars,  \* scalars emitted since the epoch began, in order
    loss_sum,       \* sum of the batch losses since the epoch began
    n_losses,       \* number of batch losses since the epoch began
    checkpoints     \* the files under weights/

vars == <<args, data, pc, mode, criterion, weights, loss_params, grad, epoch,
          epoch_loss, errors, sampler, batch, calls, log_file, epoch_rows,
          writer, epoch_scalars, loss_sum, n_losses, checkpoints>>

\* Groups for UNCHANGED.
inputs    == <<args, data>>
learner   == <<weights, loss_params, grad>>
outputs   == <<log_file, epoch_rows, writer, epoch_scalars, checkpoints>>
lossTrace == <<loss_sum, n_losses>>

\* No batch in flight.  fwd_mode is the model's mode at the forward pass of the
\* batch, step_grad what .grad held at its optimizer step.
NoBatch == [split |-> "none", no |-> 0, ids |-> {}, degenerate |-> FALSE, loss |-> 0,
            fwd_mode |-> "none", step_grad |-> {}]

NewBatch(split, no, ids) == [NoBatch EXCEPT !.split = split, !.no = no, !.ids = ids]

\* ------------------------------------------------------------- helpers

\* len(train_loader) with drop_last=True (main.py:66-73).
TrainLoaderLen(n, bs) == n \div bs

\* The batches the shuffling train loader may yield next from the samples
\* `left` of this epoch's permutation; none once fewer than bs are left.
TrainBatches(left, bs) == {S \in SUBSET left : Cardinality(S) = bs}

Min(a, b) == IF a <= b THEN a ELSE b

\* The test loader (main.py:74-80: shuffle=False, no drop_last) has a next
\* batch while samples are left; it takes the next bs of them, or the rest.
TestHasNextDropLast(pos, n, bs) == pos + bs <= n
TestHasNext(pos, n, bs) == pos < n
TestBatchIds(pos, n, bs) == (pos + 1)..Min(pos + bs, n)

\* a/b + c/d on fractions <<numerator, denominator>>.
FracAdd(f, g) == <<f[1] * g[2] + g[1] * f[2], f[2] * g[2]>>

\* argparse's choices check of --loss (main.py:22-26).
ValidChoiceAny(l) == TRUE
ValidChoice(l) == l \in LossChoices

\* The percentiles as main.py:55-59 passes them to the dataset: (xmin, xmax).
DatasetArgsSwapped(a) == <<a.xmax_percentile, a.xmin_percentile>>
DatasetArgs(a) == <<a.xmin_percentile, a.xmax_percentile>>

\* datasets.*Dataset: the depth bounds must satisfy xmin < xmax (spec.md 3, 7).
DepthBoundsOK(xmin, xmax) == xmin < xmax

\* criterion.named_parameters(): only the homoscedastic loss learns parameters
\* (spec.md 4.3).
NamedParameters(c) == IF c = "homoscedastic" THEN <<"s_t", "s_q">> ELSE << >>

\* main.py:195.
ShouldSaveFinalOnly(e, epochs) == e = epochs - 1
ShouldSave(e, epochs) == e % CkptEvery = 0 \/ e = epochs - 1

Scalar(tag, f, errs) == [tag |-> tag, step |-> epoch, value |-> f, errors |-> errs]

\* ---------------------------------------------------------------- Init

\* What holds of every initial state: nothing has run yet.
Fresh ==
    /\ pc = "parse_args"
    /\ mode = "unloaded"
    /\ criterion = "none"
    /\ weights = 0
    /\ loss_params = 0
    /\ grad = {}
    /\ epoch = -1
    /\ epoch_loss = <<0, 1>>
    /\ errors = {}
    /\ sampler = [train_left |-> {}, test_pos |-> 0]
    /\ batch = NoBatch
    /\ calls = << >>
    /\ log_file = [exists |-> FALSE, headers |-> 0, rows |-> 0]
    /\ epoch_rows = {}
    /\ writer = [state |-> "none", scalars |-> 0]
    /\ epoch_scalars = << >>
    /\ loss_sum = 0
    /\ n_losses = 0
    /\ checkpoints = {}

Init ==
    /\ args \in [loss : LossInputs, epochs : 0..MaxEpochs, batch_size : 1..MaxBatch,
                 xmin_percentile : Percentiles, xmax_percentile : Percentiles]
    /\ data \in [train : 1..MaxTrain, test : 1..MaxTest]
    /\ Fresh

\* Runs over a one-sample dataset of one epoch and of about CkptEvery epochs:
\* in the longest an epoch other than the first and the last is a multiple of
\* CkptEvery.
InitCkpt ==
    /\ args \in [loss : {DefaultLoss, "homoscedastic", "l2"},
                 epochs : {1, CkptEvery, CkptEvery + 1, CkptEvery + 2}, batch_size : {1},
                 xmin_percentile : Percentiles, xmax_percentile : Percentiles]
    /\ data \in [train : {1}, test : {1}]
    /\ Fresh

\* -------------------------------------------------------------- startup

\* main.py:39  parser.parse_args(): a --loss outside the choices ends the
\* program with a usage error (exit status 2).
ParseArgs ==
    /\ pc = "parse_args"
    /\ pc' = IF ValidChoice(args.loss) THEN "load_model" ELSE "usage_error"
    /\ UNCHANGED <<inputs, mode, criterion, learner, epoch, epoch_loss, errors,
                   sampler, batch, calls, outputs, lossTrace>>

\* main.py:48-50  models.load_model, model.train(), model.to(device).
LoadModel ==
    /\ pc = "load_model"
    /\ mode' = "train"
    /\ pc' = "load_dataset"
    /\ UNCHANGED <<inputs, criterion, learner, epoch, epoch_loss, errors,
                   sampler, batch, calls, outputs, lossTrace>>

\* main.py:53-80  the dataset is built from the path and the two percentiles,
\* then wrapped in the two loaders.  The dataset rejects depth bounds that are
\* not xmin < xmax; the script does not catch that.
LoadDataset ==
    /\ pc = "load_dataset"
    /\ pc' = IF DepthBoundsOK(DatasetArgs(args)[1], DatasetArgs(args)[2])
             THEN "instantiate_loss" ELSE "config_error"
    /\ UNCHANGED <<inputs, mode, criterion, learner, epoch, epoch_loss, errors,
                   sampler, batch, calls, outputs, lossTrace>>

\* main.py:86-105  the if/elif chain over args.loss; its else raises.
InstantiateLoss ==
    /\ pc = "instantiate_loss"
    /\ IF args.loss \in {"local_homography", "global_homography", "posenet",
                         "homoscedastic", "geometric", "dsac"}
       THEN criterion' = args.loss /\ pc' = "optimizer"
       ELSE criterion' = criterion /\ pc' = "config_error"
    /\ UNCHANGED <<inputs, mode, learner, epoch, epoch_loss, errors,
                   sampler, batch, calls, outputs, lossTrace>>

\* main.py:108  Adam over the model's and the criterion's parameters.
SetupOptimizer ==
    /\ pc = "optimizer"
    /\ pc' = "writer"
    /\ UNCHANGED <<inputs, mode, criterion, learner, epoch, epoch_loss, errors,
                   sampler, batch, calls, outputs, lossTrace>>

\* main.py:111-115  SummaryWriter and the weights folder.
SetupWriter ==
    /\ pc = "writer"
    /\ writer' = [state |-> "open", scalars |-> 0]
    /\ pc' = "open_log"
    /\ UNCHANGED <<inputs, mode, criterion, learner, epoch, epoch_loss, errors,
                   sampler, batch, calls, log_file, epoch_rows, epoch_scalars,
                   checkpoints, lossTrace>>

\* main.py:118-120  open(log_file_path, mode='w') truncates; the header line
\* is written.
OpenLog ==
    /\ pc = "open_log"
    /\ log_file' = [exists |-> TRUE, headers |-> 1, rows |-> 0]
    /\ pc' = "epoch_start"
    /\ UNCHANGED <<inputs, mode, criterion, learner, epoch, epoch_loss, errors,
                   sampler, batch, calls, epoch_rows, writer, epoch_scalars,
                   checkpoints, lossTrace>>

\* ----------------------------------------------------------- epoch loop

\* main.py:123-125  the head of for epoch in range(args.epochs): the next
\* epoch starts with a zero epoch loss and an empty accumulator, or the loop
\* is over and epoch keeps its last value.
EpochStart ==
    /\ pc = "epoch_start"
    /\ IF epoch + 1 < args.epochs
       THEN /\ epoch' = epoch + 1
            /\ epoch_loss' = <<0, 1>>
            /\ errors' = {}
            /\ sampler' = [sampler EXCEPT !.train_left = 1..data.train]
            /\ batch' = NoBatch
            /\ calls' = << >>
            /\ epoch_rows' = {}
            /\ epoch_scalars' = << >>
            /\ loss_sum' = 0
            /\ n_losses' = 0
            /\ pc' = "train_next"
       ELSE /\ UNCHANGED <<epoch, epoch_loss, errors, sampler, batch, calls,
                           epoch_rows, epoch_scalars, lossTrace>>
            /\ pc' = "close"
    /\ UNCHANGED <<inputs, mode, criterion, learner, log_file, writer, checkpoints>>

\* main.py:127  for batch in train_loader: shuffle=True, drop_last=True.
TrainNext ==
    /\ pc = "train_next"
    /\ IF Cardinality(sampler.train_left) >= args.batch_size
       THEN \E S \in TrainBatches(sampler.train_left, args.batch_size) :
              /\ batch' = NewBatch("train", batch.no + 1, S)
              /\ sampler' = [sampler EXCEPT !.train_left = @ \ S]
              /\ pc' = "zero_grad"
       ELSE /\ batch' = NoBatch
            /\ sampler' = sampler
            /\ pc' = "log_loss"
    /\ calls' = << >>
    /\ UNCHANGED <<inputs, mode, criterion, learner, epoch, epoch_loss, errors,
                   outputs, lossTrace>>

\* main.py:128-131  optimizer.zero_grad(), batch_to_device.
ZeroGradKeep ==
    /\ pc = "zero_grad"
    /\ grad' = grad
    /\ calls' = Append(calls, "zero_grad")
    /\ pc' = "train_forward"
    /\ UNCHANGED <<inputs, mode, criterion, weights, loss_params, epoch, epoch_loss,
                   errors, sampler, batch, outputs, lossTrace>>
ZeroGrad ==
    /\ pc = "zero_grad"
    /\ grad' = {}
    /\ calls' = Append(calls, "zero_grad")
    /\ pc' = "train_forward"
    /\ UNCHANGED <<inputs, mode, criterion, weights, loss_params, epoch, epoch_loss,
                   errors, sampler, batch, outputs, lossTrace>>

\* main.py:134  the model's forward pass.  Whether every predicted quaternion
\* of the batch comes out with (near) zero norm is the model's doing.
TrainForward ==
    /\ pc = "train_forward"
    /\ \E d \in BOOLEAN : batch' = [batch EXCEPT !.degenerate = d, !.fwd_mode = mode]
    /\ calls' = Append(calls, "model")
    /\ pc' = "train_utils"
    /\ UNCHANGED <<inputs, mode, criterion, learner, epoch, epoch_loss, errors,
                   sampler, outputs, lossTrace>>

\* utils.batch_compute_utils(batch) fails on a batch whose samples are all
\* degenerate (spec.md 4.4).
BatchComputeUtilsFails(b) == b.degenerate

\* main.py:140  batch_compute_utils(batch).  The script has no handler around
\* the call, so its failure ends the run.
TrainUtils ==
    /\ pc = "train_utils"
    /\ calls' = Append(calls, "batch_compute_utils")
    /\ pc' = IF BatchComputeUtilsFails(batch) THEN "degenerate_error" ELSE "criterion"
    /\ UNCHANGED <<inputs, mode, criterion, learner, epoch, epoch_loss, errors,
                   sampler, batch, outputs, lossTrace>>

\* main.py:143  loss = criterion(batch).
Criterion ==
    /\ pc = "criterion"
    /\ \E l \in 0..MaxLoss : batch' = [batch EXCEPT !.loss = l]
    /\ calls' = Append(calls, "criterion")
    /\ pc' = "backward"
    /\ UNCHANGED <<inputs, mode, criterion, learner, epoch, epoch_loss, errors,
                   sampler, outputs, lossTrace>>

\* main.py:146  loss.backward() adds this batch's gradient to .grad.
Backward ==
    /\ pc = "backward"
    /\ grad' = grad \cup {<<epoch, batch.no>>}
    /\ calls' = Append(calls, "backward")
    /\ pc' = "opt_step"
    /\ UNCHANGED <<inputs, mode, criterion, weights, loss_params, epoch, epoch_loss,
                   errors, sampler, batch, outputs, lossTrace>>

\* main.py:147  optimizer.step() updates every parameter given to Adam at
\* main.py:108: the model's and the criterion's.
OptStep ==
    /\ pc = "opt_step"
    /\ weights' = weights + 1
    /\ loss_params' = IF NamedParameters(criterion) # << >> THEN loss_params + 1
                      ELSE loss_params
    /\ batch' = [batch EXCEPT !.step_grad = grad]
    /\ calls' = Append(calls, "step")
    /\ pc' = "add_loss"
    /\ UNCHANGED <<inputs, mode, criterion, grad, epoch, epoch_loss, errors,
                   sampler, outputs, lossTrace>>

\* main.py:150  epoch_loss += loss.item() / len(train_loader).
AddLossUndivided ==
    /\ pc = "add_loss"
    /\ epoch_loss' = FracAdd(epoch_loss, <<batch.loss, 1>>)
    /\ loss_sum' = loss_sum + batch.loss
    /\ n_losses' = n_losses + 1
    /\ pc' = "train_errors"
    /\ UNCHANGED <<inputs, mode, criterion, learner, epoch, errors, sampler, batch,
                   calls, outputs>>
AddLoss ==
    /\ pc = "add_loss"
    /\ epoch_loss' = FracAdd(epoch_loss,
                             <<batch.loss, TrainLoaderLen(data.train, args.batch_size)>>)
    /\ loss_sum' = loss_sum + batch.loss
    /\ n_losses' = n_losses + 1
    /\ pc' = "train_errors"
    /\ UNCHANGED <<inputs, mode, criterion, learner, epoch, errors, sampler, batch,
                   calls, outputs>>

\* utils.batch_errors(batch, errors): one error record per sample of the
\* batch, keyed by the sample (spec.md 3, 4.2).  The record carries the epoch
\* and split it was written in.
BatchErrors(b, acc) ==
    {r \in acc : r.id \notin {<<b.split, i>> : i \in b.ids}}
        \cup {[id |-> <<b.split, i>>, epoch |-> epoch, split |-> b.split] : i \in b.ids}

\* utils.log_poses(log_file, batch, epoch, type): one row per sample of the
\* batch (spec.md 6).
LogPoses(b, e, type) == {[epoch |-> e, image_file |-> <<b.split, i>>, type |-> type] : i \in b.ids}

\* main.py:154  batch_errors(batch, errors).
TrainErrors ==
    /\ pc = "train_errors"
    /\ errors' = BatchErrors(batch, errors)
    /\ calls' = Append(calls, "batch_errors")
    /\ pc' = "train_log_poses"
    /\ UNCHANGED <<inputs, mode, criterion, learner, epoch, epoch_loss, sampler, batch,
                   outputs, lossTrace>>

\* main.py:156-157  the log is opened in append mode, log_poses(.., 'train').
TrainLogPoses ==
    /\ pc = "train_log_poses"
    /\ log_file' = [log_file EXCEPT !.exists = TRUE,
                                    !.rows = @ + Cardinality(LogPoses(batch, epoch, "train"))]
    /\ epoch_rows' = epoch_rows \cup LogPoses(batch, epoch, "train")
    /\ calls' = Append(calls, "log_poses")
    /\ pc' = "train_next"
    /\ UNCHANGED <<inputs, mode, criterion, learner, epoch, epoch_loss, errors, sampler,
                   batch, writer, epoch_scalars, checkpoints, lossTrace>>

\* main.py:160  writer.add_scalar('train loss', epoch_loss, epoch).
LogLoss ==
    /\ pc = "log_loss"
    /\ epoch_scalars' = Append(epoch_scalars, Scalar("train loss", epoch_loss, {}))
    /\ writer' = [writer EXCEPT !.scalars = @ + 1]
    /\ pc' = "log_train_errors"
    /\ UNCHANGED <<inputs, mode, criterion, learner, epoch, epoch_loss, errors, sampler,
                   batch, calls, log_file, epoch_rows, checkpoints, lossTrace>>

\* utils.log_errors(errors, writer, epoch, type): the aggregate of the records
\* the accumulator holds goes to the writer, tagged with the epoch (spec.md 4.2, 6).
LogErrors(acc, type) == Scalar(type \o " errors", <<0, 1>>, acc)

\* main.py:165  log_errors(errors, writer, epoch, 'train').
LogTrainErrors ==
    /\ pc = "log_train_errors"
    /\ epoch_scalars' = Append(epoch_scalars, LogErrors(errors, "train"))
    /\ writer' = [writer EXCEPT !.scalars = @ + 1]
    /\ pc' = "eval"
    /\ UNCHANGED <<inputs, mode, criterion, learner, epoch, epoch_loss, errors, sampler,
                   batch, calls, log_file, epoch_rows, checkpoints, lossTrace>>

\* main.py:168-169  model.eval(); errors = {}.
EvalModeKeepErrors ==
    /\ pc = "eval"
    /\ mode' = "eval"
    /\ errors' = errors
    /\ sampler' = [sampler EXCEPT !.test_pos = 0]
    /\ batch' = NoBatch
    /\ calls' = << >>
    /\ pc' = "test_next"
    /\ UNCHANGED <<inputs, criterion, learner, epoch, epoch_loss, outputs, lossTrace>>
EvalMode ==
    /\ pc = "eval"
    /\ mode' = "eval"
    /\ errors' = {}
    /\ sampler' = [sampler EXCEPT !.test_pos = 0]
    /\ batch' = NoBatch
    /\ calls' = << >>
    /\ pc' = "test_next"
    /\ UNCHANGED <<inputs, criterion, learner, epoch, epoch_loss, outputs, lossTrace>>

\* main.py:171  for batch in test_loader: in order, the last batch may be short.
TestNext ==
    /\ pc = "test_next"
    /\ IF TestHasNext(sampler.test_pos, data.test, args.batch_size)
       THEN /\ batch' = NewBatch("test", batch.no + 1,
                                 TestBatchIds(sampler.test_pos, data.test, args.batch_size))
            /\ sampler' = [sampler EXCEPT !.test_pos = Min(@ + args.batch_size, data.test)]
            /\ pc' = "test_forward"
       ELSE /\ batch' = NoBatch
            /\ sampler' = sampler
            /\ pc' = "log_test_errors"
    /\ calls' = << >>
    /\ UNCHANGED <<inputs, mode, criterion, learner, epoch, epoch_loss, errors,
                   outputs, lossTrace>>

\* main.py:173-174  batch_to_device and the model's forward pass.
TestForward ==
    /\ pc = "test_forward"
    /\ \E d \in BOOLEAN : batch' = [batch EXCEPT !.degenerate = d, !.fwd_mode = mode]
    /\ calls' = Append(calls, "model")
    /\ pc' = "test_utils"
    /\ UNCHANGED <<inputs, mode, criterion, learner, epoch, epoch_loss, errors,
                   sampler, outputs, lossTrace>>

\* main.py:175  batch_compute_utils(batch), as in the train pass.
TestUtilsSkipped ==
    /\ pc = "test_utils"
    /\ calls' = calls
    /\ pc' = "test_log_poses"
    /\ UNCHANGED <<inputs, mode, criterion, learner, epoch, epoch_loss, errors,
                   sampler, batch, outputs, lossTrace>>
TestUtils ==
    /\ pc = "test_utils"
    /\ calls' = Append(calls, "batch_compute_utils")
    /\ pc' = IF BatchComputeUtilsFails(batch) THEN "degenerate_error" ELSE "test_log_poses"
    /\ UNCHANGED <<inputs, mode, criterion, learner, epoch, epoch_loss, errors,
                   sampler, batch, outputs, lossTrace>>

\* main.py:178-179  the log is opened in append mode, log_poses(.., 'test').
TestLogPoses ==
    /\ pc = "test_log_poses"
    /\ log_file' = [log_file EXCEPT !.exists = TRUE,
                                    !.rows = @ + Cardinality(LogPoses(batch, epoch, "test"))]
    /\ epoch_rows' = epoch_rows \cup LogPoses(batch, epoch, "test")
    /\ calls' = Append(calls, "log_poses")
    /\ pc' = "test_errors"
    /\ UNCHANGED <<inputs, mode, criterion, learner, epoch, epoch_loss, errors, sampler,
                   batch, writer, epoch_scalars, checkpoints, lossTrace>>

\* main.py:182  batch_errors(batch, errors).
TestErrors ==
    /\ pc = "test_errors"
    /\ errors' = BatchErrors(batch, errors)
    /\ calls' = Append(calls, "batch_errors")
    /\ pc' = "test_next"
    /\ UNCHANGED <<inputs, mode, criterion, learner, epoch, epoch_loss, sampler, batch,
                   outputs, lossTrace>>

\* main.py:185  log_errors(errors, writer, epoch, 'test').
LogTestErrors ==
    /\ pc = "log_test_errors"
    /\ epoch_scalars' = Append(epoch_scalars, LogErrors(errors, "test"))
    /\ writer' = [writer EXCEPT !.scalars = @ + 1]
    /\ pc' = "log_params"
    /\ UNCHANGED <<inputs, mode, criterion, learner, epoch, epoch_loss, errors, sampler,
                   batch, calls, log_file, epoch_rows, checkpoints, lossTrace>>

\* main.py:188-189  one add_scalar for every named parameter of the criterion.
LogParams ==
    /\ pc = "log_params"
    /\ LET names == NamedParameters(criterion)
       IN /\ epoch_scalars' = epoch_scalars \o
                 [i \in 1..Len(names) |-> Scalar(names[i], <<loss_params, 1>>, {})]
          /\ writer' = [writer EXCEPT !.scalars = @ + Len(names)]
    /\ pc' = "flush_train"
    /\ UNCHANGED <<inputs, mode, criterion, learner, epoch, epoch_loss, errors, sampler,
                   batch, calls, log_file, epoch_rows, checkpoints, lossTrace>>

\* main.py:191-192  writer.flush(); model.train().
FlushKeepEval ==
    /\ pc = "flush_train"
    /\ mode' = mode
    /\ pc' = "save"
    /\ UNCHANGED <<inputs, criterion, learner, epoch, epoch_loss, errors, sampler,
                   batch, calls, outputs, lossTrace>>
FlushTrain ==
    /\ pc = "flush_train"
    /\ mode' = "train"
    /\ pc' = "save"
    /\ UNCHANGED <<inputs, criterion, learner, epoch, epoch_loss, errors, sampler,
                   batch, calls, outputs, lossTrace>>

\* main.py:195-200  the checkpoint of this epoch, when it is due; then the for
\* loop of main.py:123 moves to the next epoch.
Save ==
    /\ pc = "save"
    /\ checkpoints' =
          IF ShouldSave(epoch, args.epochs)
          THEN checkpoints \cup {[epoch |-> epoch,
                                  model_state_dict |-> weights,
                                  optimizer_state_dict |-> weights,
                                  criterion_state_dict |-> loss_params]}
          ELSE checkpoints
    /\ pc' = "epoch_start"
    /\ UNCHANGED <<inputs, mode, criterion, learner, epoch, epoch_loss, errors, sampler,
                   batch, calls, log_file, epoch_rows, writer, epoch_scalars, lossTrace>>

\* main.py:202  writer.close().
Close ==
    /\ pc = "close"
    /\ writer' = [writer EXCEPT !.state = "closed"]
    /\ pc' = "done"
    /\ UNCHANGED <<inputs, mode, criterion, learner, epoch, epoch_loss, errors, sampler,
                   batch, calls, log_file, epoch_rows, epoch_scalars, checkpoints, lossTrace>>

Next ==
    \/ ParseArgs \/ LoadModel \/ LoadDataset \/ InstantiateLoss
    \/ SetupOptimizer \/ SetupWriter \/ OpenLog
    \/ EpochStart
    \/ TrainNext \/ ZeroGrad \/ TrainForward \/ TrainUtils \/ Criterion
    \/ Backward \/ OptStep \/ AddLoss \/ TrainErrors \/ TrainLogPoses
    \/ LogLoss \/ LogTrainErrors
    \/ EvalMode \/ TestNext \/ TestForward \/ TestUtils \/ TestLogPoses \/ TestErrors
    \/ LogTestErrors \/ LogParams \/ FlushTrain \/ Save
    \/ Close

Spec == Init /\ [][Next]_vars

SpecCkpt == InitCkpt /\ [][Next]_vars

\* ------------------------------------------------- vocabulary of the claims

\* Positions of a call in the trace of the batch in flight.
At(name) == {i \in 1..Len(calls) : calls[i] = name}

Before(first, then) == \A i \in At(then) : \E j \in At(first) : j < i

\* The batch in flight has been through its whole loop body.
BatchDone(split) ==
    /\ batch.split = split
    /\ pc = (IF split = "train" THEN "train_next" ELSE "test_next")

\* The epoch's body has run to its last statement; only the save is left.
EpochDone == pc = "save"

\* Number of epochs whose body, the save included, is over.
Completed ==
    IF pc \in {"epoch_start", "close", "done"} THEN epoch + 1
    ELSE IF epoch < 0 THEN 0 ELSE epoch

TrainIds == {<<"train", i>> : i \in 1..data.train}
TestIds == {<<"test", i>> : i \in 1..data.test}

RowsOf(type) == {r.image_file : r \in {x \in epoch_rows : x.type = type}}

\* Samples per epoch the train loader yields: whole batches only.
TrainYield == args.batch_size * TrainLoaderLen(data.train, args.batch_size)

Tags == [i \in 1..Len(epoch_scalars) |-> epoch_scalars[i].tag]

ExpectedTags == <<"train loss", "train errors", "test errors">> \o NamedParameters(criterion)

IsPrefix(s, t) == Len(s) <= Len(t) /\ \A i \in 1..Len(s) : s[i] = t[i]

\* --------------------------------------------------------------- claims

\* C1: at the end of epoch e a checkpoint is saved if and only if e is a
\* multiple of 500 or e is the final epoch; a finished run of at least one
\* epoch holds the final epoch's checkpoint; a checkpoint is written only
\* once both loaders of its epoch are exhausted, and it holds the weights as
\* they are after all of that epoch's training steps.
C1_Schedule ==
    /\ \A e \in 0..(Completed - 1) :
          (\E c \in checkpoints : c.epoch = e) <=> (e % 500 = 0 \/ e = args.epochs - 1)
    /\ \A c \in checkpoints :
          /\ c.epoch < Completed
          /\ c.model_state_dict = (c.epoch + 1) * TrainLoaderLen(data.train, args.batch_size)
    /\ (pc = "done" /\ args.epochs >= 1) => \E c \in checkpoints : c.epoch = args.epochs - 1

C1_SavedAfterPasses ==
    (checkpoints' # checkpoints) =>
        /\ Cardinality(sampler.train_left) < args.batch_size
        /\ sampler.test_pos = data.test
        /\ Tags = ExpectedTags

C1_Checkpoints == [](C1_Schedule) /\ [][C1_SavedAfterPasses]_vars

\* C1 witness: a finished run that saved epoch 500 although it was not the last.
C1_Witness ==
    /\ pc = "done"
    /\ args.epochs - 1 > 500
    /\ \E c \in checkpoints : c.epoch = 500
    /\ \E c \in checkpoints : c.epoch = args.epochs - 1

\* C2 as stated: when an epoch is over the log has got exactly one row for
\* every sample of the train split and one for every sample of the test split.
C2_RowPerSample ==
    EpochDone =>
        /\ RowsOf("train") = TrainIds
        /\ RowsOf("test") = TestIds
        /\ log_file.rows = (epoch + 1) * (data.train + data.test)

\* C2 amended: per completed epoch the log gets exactly one row for every sample of
\* every train batch, which are batch_size * (train size div batch_size)
\* samples of the train split (those left over in the shuffled order get
\* none), and exactly one row for every sample of the test split; every row
\* is appended after the forward pass of its batch; the file has one header
\* line, written when the file is created empty.
C2_RowPerBatchedSample ==
    /\ log_file.exists => log_file.headers = 1
    /\ log_file.rows > 0 => log_file.exists
    /\ \A r \in epoch_rows : r.epoch = epoch /\ r.image_file[1] = r.type
    /\ Before("model", "log_poses")
    /\ EpochDone =>
          /\ RowsOf("train") \subseteq TrainIds
          /\ Cardinality(RowsOf("train")) = TrainYield
          /\ RowsOf("test") = TestIds
          /\ log_file.rows = (epoch + 1) * (TrainYield + data.test)

\* C2 witness: the second epoch is over, the train split left a sample over
\* and the test split ended in a short batch.
C2_Witness ==
    /\ EpochDone
    /\ epoch = 1
    /\ 0 < TrainYield /\ TrainYield < data.train
    /\ data.test % args.batch_size # 0
    /\ RowsOf("test") = TestIds

\* C3: with a --loss outside the six choices the run never gets past the
\* parsing of its arguments: no model is loaded, no batch is forwarded, no
\* optimizer step is taken, no writer, log file or checkpoint is made.
C3_UnknownLossStopsAtStartup ==
    args.loss \notin {"local_homography", "global_homography", "posenet",
                      "homoscedastic", "geometric", "dsac"} =>
        /\ pc \in {"parse_args", "usage_error"}
        /\ mode = "unloaded"
        /\ criterion = "none"
        /\ calls = << >> /\ batch = NoBatch
        /\ weights = 0 /\ loss_params = 0
        /\ writer.state = "none"
        /\ ~log_file.exists
        /\ checkpoints = {}

\* C3 witness: the run of an unknown loss has ended in the usage error.
C3_Witness == pc = "usage_error" /\ args.loss = "l2"

C5_DegenerateBatchSkipped ==
    (batch.split = "train" /\ batch.degenerate /\ At("batch_compute_utils") # {}) =>
        /\ At("backward") = {} /\ At("step") = {}
        /\ pc # "degenerate_error"

\* C6: on every batch of either pass batch_compute_utils runs at most once,
\* after the forward pass and before the criterion, batch_errors and
\* log_poses; on a batch that has been through the loop body it ran exactly
\* once, and so it has whenever one of the three has run.
C6_UtilsOnceBeforeUse ==
    /\ Cardinality(At("batch_compute_utils")) <= 1
    /\ Before("model", "batch_compute_utils")
    /\ Before("batch_compute_utils", "criterion")
    /\ Before("batch_compute_utils", "batch_errors")
    /\ Before("batch_compute_utils", "log_poses")
    /\ (BatchDone("train") \/ BatchDone("test")) =>
          /\ Cardinality(At("batch_compute_utils")) = 1
          /\ Cardinality(At("model")) = 1
          /\ At("batch_errors") # {} /\ At("log_poses") # {}
    /\ BatchDone("train") => At("criterion") # {}

\* C6 witness: a test batch of the second epoch has been through the loop body.
C6_Witness == BatchDone("test") /\ epoch = 1 /\ At("log_poses") # {}

\* C7: the records the accumulator holds are those of the pass in progress:
\* a report of train (test) errors of epoch e aggregates only records written
\* by train (test) batches of epoch e, and in the train (test) pass the
\* accumulator holds no record of another epoch or of the other split.
C7_AccumulatorPerSplit ==
    /\ \A i \in 1..Len(epoch_scalars) :
          LET s == epoch_scalars[i] IN
          /\ s.tag = "train errors" =>
                \A r \in s.errors : r.epoch = s.step /\ r.split = "train"
          /\ s.tag = "test errors" =>
                \A r \in s.errors : r.epoch = s.step /\ r.split = "test"
    /\ pc \in {"train_next", "zero_grad", "train_forward", "train_utils", "criterion",
               "backward", "opt_step", "add_loss", "train_errors", "train_log_poses",
               "log_loss", "log_train_errors"} =>
          \A r \in errors : r.epoch = epoch /\ r.split = "train"
    /\ pc \in {"test_next", "test_forward", "test_utils", "test_log_poses", "test_errors",
               "log_test_errors"} =>
          \A r \in errors : r.epoch = epoch /\ r.split = "test"

\* C7 witness: in the second epoch both reports are out and neither is empty.
C7_Witness ==
    /\ epoch = 1
    /\ \E i \in 1..Len(epoch_scalars) :
          epoch_scalars[i].tag = "train errors" /\ epoch_scalars[i].errors # {}
    /\ \E i \in 1..Len(epoch_scalars) :
          epoch_scalars[i].tag = "test errors" /\ epoch_scalars[i].errors = 
              {[id |-> x, epoch |-> 1, split |-> "test"] : x \in TestIds}

\* C8: the scalars of an epoch come in the order train loss, train errors,
\* test errors, loss parameters, each tagged with the epoch; when the epoch is
\* over each has been emitted exactly once, in this and in every earlier
\* epoch; the train loss is the mean of the epoch's batch losses (0 when the
\* epoch had no batch) and a parameter's scalar is its current value.
C8_MetricsOncePerEpoch ==
    /\ IsPrefix(Tags, ExpectedTags)
    /\ \A i \in 1..Len(epoch_scalars) : epoch_scalars[i].step = epoch
    /\ \A i \in 1..Len(epoch_scalars) :
          LET s == epoch_scalars[i] IN
          /\ s.tag = "train loss" =>
                /\ n_losses = TrainLoaderLen(data.train, args.batch_size)
                /\ n_losses > 0 => s.value[1] * n_losses = loss_sum * s.value[2]
                /\ n_losses = 0 => s.value[1] = 0
          /\ i > 3 => s.value = <<loss_params, 1>>
    /\ EpochDone => Tags = ExpectedTags
    /\ writer.state = "open" =>
          writer.scalars = Completed * Len(ExpectedTags)
                           + (IF Completed > epoch THEN 0 ELSE Len(epoch_scalars))
    /\ pc = "done" => writer.scalars = args.epochs * Len(ExpectedTags)

\* C8 witness: the second epoch of a homoscedastic run is over; it had two
\* batches and their losses were not all zero.
C8_Witness ==
    /\ EpochDone
    /\ epoch = 1
    /\ criterion = "homoscedastic"
    /\ n_losses >= 2 /\ loss_sum >= 1
    /\ Len(epoch_scalars) = 5

\* C9: only the optimizer step of a train batch changes the model weights and
\* the learned loss parameters; a train batch takes exactly one step, after a
\* zero_grad and the backward pass of its own loss, so that the step uses the
\* gradient of that batch alone; a test batch takes none.
C9_BatchSteps ==
    /\ \A i \in At("step") :
          /\ batch.split = "train"
          /\ \E j \in At("backward") : j < i /\ \E k \in At("zero_grad") : k < j
          /\ batch.step_grad = {<<epoch, batch.no>>}
    /\ BatchDone("train") => Cardinality(At("step")) = 1
    /\ BatchDone("test") => At("step") = {} /\ At("backward") = {}
    /\ NamedParameters(criterion) = << >> => loss_params = 0
    /\ NamedParameters(criterion) # << >> => loss_params = weights

C9_OnlyStepWrites ==
    (weights' # weights \/ loss_params' # loss_params) =>
        /\ pc = "opt_step" /\ pc' = "add_loss"
        /\ batch.split = "train"
        /\ weights' = weights + 1

C9_SingleWriter == [](C9_BatchSteps) /\ [][C9_OnlyStepWrites]_vars

\* C9 witness: the second train batch of a run with learned loss parameters
\* has been through the loop body.
C9_Witness ==
    /\ BatchDone("train")
    /\ weights = 2 /\ loss_params = 2
    /\ batch.step_grad = {<<epoch, batch.no>>}

\* C10: a train batch is forwarded with the model in training mode and a test
\* batch with the model in evaluation mode, in every epoch: the model is in
\* training mode throughout the train pass and in evaluation mode throughout
\* the test pass.
C10_ModeMatchesPass ==
    /\ (batch.split = "train" /\ At("model") # {}) => batch.fwd_mode = "train"
    /\ (batch.split = "test" /\ At("model") # {}) => batch.fwd_mode = "eval"
    /\ pc \in {"train_next", "zero_grad", "train_forward", "train_utils", "criterion",
               "backward", "opt_step", "add_loss", "train_errors", "train_log_poses"} =>
          mode = "train"
    /\ pc \in {"test_next", "test_forward", "test_utils", "test_log_poses", "test_errors"} =>
          mode = "eval"

\* C10 witness: a train batch of the second epoch has been forwarded.
C10_Witness ==
    /\ epoch = 1
    /\ batch.split = "train"
    /\ At("model") # {}
    /\ batch.fwd_mode = "train"
====
